---- MODULE Spec2Model ----
(***************************************************************************)
(* Model of metainfo/metainfo.go: the strict loader (Load), the loader     *)
(* with a recovery pass (LoadBytes, newBts) and the magnet accessors       *)
(* (UpvertedAnnounceList, Magnet).                                         *)
(*                                                                         *)
(* A byte sequence is modelled by what the two decoders make of it: the    *)
(* value tree it spells, whether the strict decoder's grammar accepts it   *)
(* and whether the lenient decoder's grammar accepts it.  A value of the   *)
(* lenient decoder is a tagged variant: integer, byte-string, list or      *)
(* key-value map.  A map is a function over its possible keys in which     *)
(* Nil stands for an absent key (Go's map lookup yields a nil interface    *)
(* for an absent key, and the lenient decoder never stores nil).           *)
(***************************************************************************)
EXTENDS Integers, Sequences, FiniteSets, TLC

VARIABLES
    rb,        \* the input byte sequence of the call
    pc,        \* "start", or the operation that has completed
    ret,       \* what LoadBytes returned: [mi, err, calls, fault]
    nbts,      \* what a direct call of newBts returned: [fault, bts]
    m          \* the Magnet built from the loaded descriptor

vars == <<rb, pc, ret, nbts, m>>

----------------------------------------------------------------------------
(* Bounds of the explored inputs. *)

\* number of fields in which an input document differs from BaseDoc
MaxDeviations == 2
\* longest `files` list built from the well-typed file entries
MaxFiles == 2

----------------------------------------------------------------------------
(* Dynamic values: what gobencode.Unmarshal yields. *)

Nil == [t |-> "nil", v |-> 0]
IsNil(x) == x.t = "nil"
VInt(n) == [t |-> "int", v |-> n]
VStr(s) == [t |-> "str", v |-> s]
VList(q) == [t |-> "list", v |-> q]
VMap(f) == [t |-> "map", v |-> f]

TopKeys == {"announce", "announce-list", "creation date", "comment",
            "created by", "encoding", "url-list", "info"}
InfoKeys == {"piece length", "pieces", "name", "length", "private",
             "source", "files"}
FileKeys == {"length", "path"}

File(len, path) == VMap([k \in FileKeys |-> IF k = "length" THEN len ELSE path])

\* x.(T) on an interface value: panics unless the dynamic type is T
\* (callers guard it with x != nil).
AssertFails(x, t) == x.t # t

Range(q) == {q[i] : i \in 1..Len(q)}

StrList(q) == [i \in 1..Len(q) |-> q[i].v]

----------------------------------------------------------------------------
(* Byte sequences, Go structs, pointers and errors. *)

\* a byte sequence; nil is the nil (or empty) slice
Bytes(val, strict, lenient) ==
    [nil |-> FALSE, strict |-> strict, lenient |-> lenient, val |-> val]
NilBytes == [nil |-> TRUE, strict |-> FALSE, lenient |-> FALSE, val |-> Nil]

\* the zero value of struct MetaInfo
MetaInfo ==
    [InfoBytes |-> NilBytes, Announce |-> "", AnnounceList |-> <<>>,
     Nodes |-> <<>>, CreationDate |-> 0, Comment |-> "", CreatedBy |-> "",
     Encoding |-> "", UrlList |-> <<>>]

\* the zero value of struct Info; Private is the *bool: unset, true or false
Info ==
    [PieceLength |-> 0, Pieces |-> "", Name |-> "", Length |-> 0,
     Private |-> "unset", Source |-> "", Files |-> <<>>]

FileInfo(len, path) == [Length |-> len, Path |-> path]

NilPtr == [ptr |-> "nil", val |-> MetaInfo]
Ref(mi) == [ptr |-> "ref", val |-> mi]

NoErr == [kind |-> "nil", field |-> ""]
SyntaxError == [kind |-> "SyntaxError", field |-> ""]
UnmarshalTypeError(k) == [kind |-> "UnmarshalTypeError", field |-> k]

----------------------------------------------------------------------------
(* The codec: strict typed decode and encode (package bencode) and the     *)
(* lenient decode (gobencode).                                             *)

\* gobencode.Unmarshal: the value tree, or an error
Unmarshal(b) ==
    IF b.nil \/ ~b.lenient
    THEN [decode |-> Nil, err |-> SyntaxError]
    ELSE [decode |-> b.val, err |-> NoErr]

IsStr(x) == x.t = "str"
IsStrList(x) == x.t = "list" /\ \A i \in 1..Len(x.v) : IsStr(x.v[i])
IsTierList(x) == x.t = "list" /\ \A i \in 1..Len(x.v) : IsStrList(x.v[i])

\* whether the value of key k has the type of MetaInfo's field tagged k;
\* `creation date` carries ignore_unmarshal_type_error, `info` is raw bytes
WellTyped(k, x) ==
    CASE IsNil(x) -> TRUE
      [] k \in {"announce", "comment", "created by", "encoding"} -> IsStr(x)
      [] k = "announce-list" -> IsTierList(x)
      [] k = "url-list" -> IsStrList(x)
      [] OTHER -> TRUE

\* the struct with the field tagged k set from x
SetField(mi, k, x) ==
    CASE IsNil(x) -> mi
      [] k = "announce" -> [mi EXCEPT !.Announce = x.v]
      [] k = "comment" -> [mi EXCEPT !.Comment = x.v]
      [] k = "created by" -> [mi EXCEPT !.CreatedBy = x.v]
      [] k = "encoding" -> [mi EXCEPT !.Encoding = x.v]
      [] k = "announce-list" ->
           [mi EXCEPT !.AnnounceList = [i \in 1..Len(x.v) |-> StrList(x.v[i].v)]]
      [] k = "url-list" -> [mi EXCEPT !.UrlList = StrList(x.v)]
      [] k = "creation date" ->
           IF x.t = "int" THEN [mi EXCEPT !.CreationDate = x.v] ELSE mi
      [] k = "info" -> [mi EXCEPT !.InfoBytes = Bytes(x, TRUE, TRUE)]

\* the keys of a dictionary in the order the decoder meets them
KeyOrder == <<"announce", "announce-list", "comment", "created by",
              "creation date", "encoding", "info", "url-list">>

RECURSIVE DecodeKeys(_, _, _)
DecodeKeys(top, i, mi) ==
    IF i > Len(KeyOrder) THEN [mi |-> mi, err |-> NoErr]
    ELSE LET k == KeyOrder[i] IN
         IF ~WellTyped(k, top[k])
         THEN [mi |-> mi, err |-> UnmarshalTypeError(k)]
         ELSE DecodeKeys(top, i + 1, SetField(mi, k, top[k]))

\* bencode.NewDecoder(r).Decode(&mi): the struct as far as it was filled,
\* and the error
Decode(b) ==
    IF b.nil \/ ~b.strict THEN [mi |-> MetaInfo, err |-> SyntaxError]
    ELSE IF b.val.t # "map" THEN [mi |-> MetaInfo, err |-> UnmarshalTypeError("")]
    ELSE DecodeKeys(b.val.v, 1, MetaInfo)

\* bencode.Marshal(&info): a dictionary, omitempty fields left out.  The
\* encoder has no failure for a struct of integers, strings and slices, so
\* the err == nil tests of lines 170 and 178 always pass.
MarshalInfo(info) ==
    Bytes(VMap([k \in InfoKeys |->
        CASE k = "piece length" -> VInt(info.PieceLength)
          [] k = "pieces" -> VStr(info.Pieces)
          [] k = "name" -> VStr(info.Name)
          [] k = "length" -> IF info.Length = 0 THEN Nil ELSE VInt(info.Length)
          [] k = "private" ->
               IF info.Private = "unset" THEN Nil
               ELSE VInt(IF info.Private = "true" THEN 1 ELSE 0)
          [] k = "source" -> IF info.Source = "" THEN Nil ELSE VStr(info.Source)
          [] k = "files" ->
               IF Len(info.Files) = 0 THEN Nil
               ELSE VList([i \in 1..Len(info.Files) |->
                      File(VInt(info.Files[i].Length),
                           VList([j \in 1..Len(info.Files[i].Path) |->
                                    VStr(info.Files[i].Path[j])]))])]),
          TRUE, TRUE)

\* bencode.Marshal(&mi): every field of MetaInfo is omitempty
Marshal(mi) ==
    Bytes(VMap([k \in TopKeys |->
        CASE k = "announce" -> IF mi.Announce = "" THEN Nil ELSE VStr(mi.Announce)
          [] k = "comment" -> IF mi.Comment = "" THEN Nil ELSE VStr(mi.Comment)
          [] k = "created by" -> IF mi.CreatedBy = "" THEN Nil ELSE VStr(mi.CreatedBy)
          [] k = "encoding" -> IF mi.Encoding = "" THEN Nil ELSE VStr(mi.Encoding)
          [] k = "creation date" ->
               IF mi.CreationDate = 0 THEN Nil ELSE VInt(mi.CreationDate)
          [] k = "announce-list" ->
               IF Len(mi.AnnounceList) = 0 THEN Nil
               ELSE VList([i \in 1..Len(mi.AnnounceList) |->
                      VList([j \in 1..Len(mi.AnnounceList[i]) |->
                               VStr(mi.AnnounceList[i][j])])])
          [] k = "url-list" ->
               IF Len(mi.UrlList) = 0 THEN Nil
               ELSE VList([i \in 1..Len(mi.UrlList) |-> VStr(mi.UrlList[i])])
          [] k = "info" -> IF mi.InfoBytes.nil THEN Nil ELSE mi.InfoBytes.val]),
          TRUE, TRUE)

----------------------------------------------------------------------------
(* Load and LoadBytes. *)

\* Load that hands back the struct it was filling together with the error
LoadKeepsPartial(r) ==
    LET d == Decode(r) IN [mi |-> Ref(d.mi), err |-> d.err]

\* Load: no descriptor and the error, or the descriptor and no error
Load(r) ==
    LET d == Decode(r) IN
    IF d.err # NoErr THEN [mi |-> NilPtr, err |-> d.err]
    ELSE [mi |-> Ref(d.mi), err |-> NoErr]

----------------------------------------------------------------------------
(* newBts, the recovery decoder. *)

\* a failed type assertion among the top-level fields (lines 74-102)
TopPanics(miDe) ==
    LET ifAnnounce == miDe["announce"]
        ifAnnounceList == miDe["announce-list"]
        ifCreationDate == miDe["creation date"]
        ifComment == miDe["comment"]
        ifCreatedBy == miDe["created by"]
        ifEncoding == miDe["encoding"]
        ifUrlList == miDe["url-list"]
    IN  \/ ~IsNil(ifAnnounce) /\ AssertFails(ifAnnounce, "str")
        \/ /\ ~IsNil(ifAnnounceList)
           /\ \/ AssertFails(ifAnnounceList, "list")
              \/ \E i \in 1..Len(ifAnnounceList.v) :
                    AssertFails(ifAnnounceList.v[i], "str")
        \/ ~IsNil(ifCreationDate) /\ AssertFails(ifCreationDate, "int")
        \/ ~IsNil(ifComment) /\ AssertFails(ifComment, "str")
        \/ ~IsNil(ifCreatedBy) /\ AssertFails(ifCreatedBy, "str")
        \/ ~IsNil(ifEncoding) /\ AssertFails(ifEncoding, "str")
        \/ /\ ~IsNil(ifUrlList)
           /\ \/ AssertFails(ifUrlList, "list")
              \/ \E i \in 1..Len(ifUrlList.v) : AssertFails(ifUrlList.v[i], "str")

\* mi after the top-level fields are taken over (lines 72-102); each
\* announce-list entry becomes a tier of its own
TopFields(miDe) ==
    LET str(k) == IF IsNil(miDe[k]) THEN "" ELSE miDe[k].v
        al == miDe["announce-list"]
        ul == miDe["url-list"]
    IN  [MetaInfo EXCEPT
           !.Announce = str("announce"),
           !.AnnounceList =
               IF IsNil(al) THEN <<>> ELSE [i \in 1..Len(al.v) |-> <<al.v[i].v>>],
           !.CreationDate =
               IF IsNil(miDe["creation date"]) THEN 0 ELSE miDe["creation date"].v,
           !.Comment = str("comment"),
           !.CreatedBy = str("created by"),
           !.Encoding = str("encoding"),
           !.UrlList = IF IsNil(ul) THEN <<>> ELSE StrList(ul.v)]

\* a failed type assertion inside one entry of `files` (lines 143-160)
FilePanics(v) ==
    /\ v.t = "map"
    /\ LET ifFileLength == v.v["length"]
           ifFilePath == v.v["path"]
       IN  \/ ~IsNil(ifFileLength) /\ AssertFails(ifFileLength, "int")
           \/ /\ ~IsNil(ifFilePath)
              /\ ifFilePath.t = "list"
              /\ \E j \in 1..Len(ifFilePath.v) : AssertFails(ifFilePath.v[j], "str")

\* FileKept without the test len(fls) > 0
FileKeptEmptyPath(v) ==
    /\ v.t = "map"
    /\ ~IsNil(v.v["path"])
    /\ v.v["path"].t = "list"

\* whether an entry of `files` is appended to files (lines 153-163)
FileKept(v) ==
    /\ v.t = "map"
    /\ ~IsNil(v.v["path"])
    /\ v.v["path"].t = "list"
    /\ Len(v.v["path"].v) > 0

\* the entry appended for v (line 162)
FileOf(v) ==
    FileInfo(IF IsNil(v.v["length"]) THEN 0 ELSE v.v["length"].v,
             StrList(v.v["path"].v))

\* info.Files (lines 138-169)
FilesOf(ifInfoFiles) ==
    IF IsNil(ifInfoFiles) \/ ifInfoFiles.t # "list" THEN <<>>
    ELSE LET kept == SelectSeq(ifInfoFiles.v, FileKept)
         IN  [i \in 1..Len(kept) |-> FileOf(kept[i])]

\* p := (ifInfoPrivate.(int64) == 1) (lines 131-134)
PrivateOf(ifInfoPrivate) ==
    IF IsNil(ifInfoPrivate) THEN "unset"
    ELSE IF ifInfoPrivate.v = 1 THEN "true" ELSE "false"

\* InfoHead without the else branch that returns nil for absent `pieces`
InfoHeadNoPiecesCheck(infoDe) ==
    IF ~IsNil(infoDe["piece length"]) /\ AssertFails(infoDe["piece length"], "int")
    THEN "panic"
    ELSE IF IsNil(infoDe["pieces"]) THEN "go on"
    ELSE IF AssertFails(infoDe["pieces"], "str") THEN "panic"
    ELSE "go on"

\* the fields of the info map up to and including the test of `pieces`
\* (lines 109-124): "panic", "nil" (return nil) or "go on"
InfoHead(infoDe) ==
    IF ~IsNil(infoDe["piece length"]) /\ AssertFails(infoDe["piece length"], "int")
    THEN "panic"
    ELSE IF IsNil(infoDe["pieces"]) THEN "nil"
    ELSE IF AssertFails(infoDe["pieces"], "str") THEN "panic"
    ELSE "go on"

\* a failed type assertion after `pieces` (lines 125-169)
InfoTailPanics(infoDe) ==
    LET bad(k, t) == ~IsNil(infoDe[k]) /\ AssertFails(infoDe[k], t)
        ifInfoFiles == infoDe["files"]
    IN  \/ bad("name", "str")
        \/ bad("length", "int")
        \/ bad("private", "int")
        \/ bad("source", "str")
        \/ /\ ~IsNil(ifInfoFiles)
           /\ ifInfoFiles.t = "list"
           /\ \E i \in 1..Len(ifInfoFiles.v) : FilePanics(ifInfoFiles.v[i])

\* the reconstructed info (lines 105-169)
InfoOf(infoDe) ==
    LET int(k) == IF IsNil(infoDe[k]) THEN 0 ELSE infoDe[k].v
        str(k) == IF IsNil(infoDe[k]) THEN "" ELSE infoDe[k].v
    IN  [PieceLength |-> int("piece length"), Pieces |-> str("pieces"),
         Name |-> str("name"), Length |-> int("length"),
         Private |-> PrivateOf(infoDe["private"]),
         Source |-> str("source"), Files |-> FilesOf(infoDe["files"])]

\* the body of newBts without its deferred recover: how it ends ("panic" or
\* "return") and the value of the named result bts at that point
newBtsBody(b) ==
    LET u == Unmarshal(b)
        panic == [out |-> "panic", bts |-> NilBytes]
        return(x) == [out |-> "return", bts |-> x]
    IN  IF u.err # NoErr \/ IsNil(u.decode) THEN return(NilBytes)
        ELSE IF u.decode.t # "map" THEN return(NilBytes)
        ELSE LET miDe == u.decode.v
                 ifInfoBytes == miDe["info"]
                 mi == TopFields(miDe)
             IN  IF TopPanics(miDe) THEN panic
                 ELSE IF IsNil(ifInfoBytes) THEN return(NilBytes)
                 ELSE IF ifInfoBytes.t # "map" THEN return(Marshal(mi))
                 ELSE IF InfoHead(ifInfoBytes.v) = "panic" THEN panic
                 ELSE IF InfoHead(ifInfoBytes.v) = "nil" THEN return(NilBytes)
                 ELSE IF InfoTailPanics(ifInfoBytes.v) THEN panic
                 ELSE return(Marshal([mi EXCEPT !.InfoBytes =
                                         MarshalInfo(InfoOf(ifInfoBytes.v))]))

\* newBts without the deferred recover: a panic leaves the call
RecoverMissing(body) == [fault |-> body.out = "panic", bts |-> body.bts]

\* the deferred recover (lines 53-55): a panic ends the call with the named
\* result as it stands, which no statement before a panic has assigned
Recover(body) == [fault |-> FALSE, bts |-> body.bts]

\* newBts: the byte sequence returned, and whether a panic left the call
newBts(b) == Recover(newBtsBody(b))

\* LoadBytes that runs the recovery pass on every input it can recover
LoadBytesNormalizes(bts) ==
    LET first == Load(bts)
        r == newBts(bts)
    IN  IF r.fault
        THEN [mi |-> NilPtr, err |-> NoErr, calls |-> 1, fault |-> TRUE]
        ELSE IF ~r.bts.nil
        THEN LET second == Load(r.bts)
             IN  [mi |-> second.mi, err |-> second.err, calls |-> 1,
                  fault |-> FALSE]
        ELSE [mi |-> first.mi, err |-> first.err, calls |-> 1, fault |-> FALSE]

\* LoadBytes that reports a failed recovery with an error of its own
LoadBytesRecoveryError(bts) ==
    LET first == Load(bts) IN
    IF first.err # NoErr
    THEN LET r == newBts(bts) IN
         IF r.fault
         THEN [mi |-> NilPtr, err |-> NoErr, calls |-> 1, fault |-> TRUE]
         ELSE IF ~r.bts.nil
         THEN LET second == Load(r.bts)
              IN  [mi |-> second.mi, err |-> second.err, calls |-> 1,
                   fault |-> FALSE]
         ELSE [mi |-> first.mi, err |-> [kind |-> "RecoveryError", field |-> ""],
               calls |-> 1, fault |-> FALSE]
    ELSE [mi |-> first.mi, err |-> first.err, calls |-> 0, fault |-> FALSE]

\* LoadBytes: what it returns, how often it called newBts, and whether a
\* panic left it
LoadBytes(bts) ==
    LET first == Load(bts) IN
    IF first.err # NoErr
    THEN LET r == newBts(bts) IN
         IF r.fault
         THEN [mi |-> NilPtr, err |-> NoErr, calls |-> 1, fault |-> TRUE]
         ELSE IF ~r.bts.nil
         THEN LET second == Load(r.bts)
              IN  [mi |-> second.mi, err |-> second.err, calls |-> 1,
                   fault |-> FALSE]
         ELSE [mi |-> first.mi, err |-> first.err, calls |-> 1, fault |-> FALSE]
    ELSE [mi |-> first.mi, err |-> first.err, calls |-> 0, fault |-> FALSE]

----------------------------------------------------------------------------
(* The accessors. *)

HashBytes(b) == [sum |-> "sha1", of |-> b]
HashInfoBytes(mi) == HashBytes(mi.InfoBytes)

\* AnnounceList.OverridesAnnounce: some tier holds a URL that is not
\* empty, or holds any URL when there is no announce
OverridesAnnounce(al, announce) ==
    \E i \in 1..Len(al) : \E j \in 1..Len(al[i]) :
        al[i][j] # "" \/ announce = ""

UpvertedAnnounceList(mi) ==
    IF OverridesAnnounce(mi.AnnounceList, mi.Announce) THEN mi.AnnounceList
    ELSE IF mi.Announce # "" THEN <<<<mi.Announce>>>>
    ELSE <<>>

\* AnnounceList.DistinctValues: the URLs of all tiers, as the key set of a map
DistinctValues(al) == UNION {Range(al[i]) : i \in 1..Len(al)}

\* the orders in which `for t := range` may visit the keys of a map:
\* the language leaves the order unspecified
RangeOrders(S) ==
    {q \in [1..Cardinality(S) -> S] : \A i, j \in 1..Cardinality(S) :
                                         i # j => q[i] # q[j]}

NoMagnet ==
    [Trackers |-> <<>>, DisplayName |-> "",
     InfoHash |-> [sum |-> "zero", of |-> NilBytes], Params |-> [ws |-> <<>>]]

\* Magnet; infoHash and info are pointers (nil or set), order is the order in
\* which the range statement visits the distinct values
Magnet(mi, infoHash, info, order) ==
    [Trackers |-> order,
     DisplayName |-> IF info.ptr = "nil" THEN "" ELSE info.val.Name,
     InfoHash |-> IF infoHash.ptr = "nil" THEN HashInfoBytes(mi) ELSE infoHash.val,
     Params |-> [ws |-> mi.UrlList]]

----------------------------------------------------------------------------
(* The explored inputs: every dictionary that differs from BaseDoc in at   *)
(* most MaxDeviations fields, each spelt in a way the strict grammar       *)
(* accepts and in a way it rejects, some inputs that are no dictionary,    *)
(* and input that neither decoder can read.                                *)

RECURSIVE SeqsUpTo(_, _)
SeqsUpTo(S, n) ==
    IF n = 0 THEN {<<>>}
    ELSE LET P == SeqsUpTo(S, n - 1)
         IN  P \cup {Append(q, x) : q \in P, x \in S}

FileEntries ==
    {File(VInt(1), VList(<<VStr("x")>>)),
     File(VInt(2), VList(<<VStr("y"), VStr("z")>>)),
     File(VInt(3), Nil),
     File(VInt(4), VList(<<>>))}

FilesDom ==
    {VList(q) : q \in SeqsUpTo(FileEntries, MaxFiles)} \cup
    {Nil, VStr("f"),
     VList(<<File(VInt(1), VList(<<VStr("x")>>)), File(VInt(3), Nil),
             File(Nil, VList(<<VStr("w")>>)), File(VInt(4), VList(<<>>)),
             File(VInt(2), VList(<<VStr("y"), VStr("z")>>))>>),
     VList(<<VInt(7), File(VInt(1), VList(<<VStr("x")>>))>>),
     VList(<<File(VInt(1), VStr("x"))>>),
     VList(<<File(VStr("l"), VList(<<VStr("x")>>))>>),
     VList(<<File(VInt(1), VList(<<VStr("x"), VInt(7)>>))>>)}

TopDom(k) ==
    CASE k = "announce" -> {Nil, VStr("a"), VStr("b"), VInt(7)}
      [] k = "announce-list" ->
           {Nil, VStr("a"), VList(<<>>),
            VList(<<VStr("a"), VStr("b")>>),
            VList(<<VStr("b"), VStr("a"), VStr("b")>>),
            VList(<<VStr("a"), VInt(7)>>),
            VList(<<VList(<<VStr("a")>>), VList(<<VStr("a")>>),
                    VList(<<VStr("b")>>)>>),
            VList(<<VList(<<VStr("c"), VStr("b")>>), VList(<<VStr("a")>>)>>)}
      [] k = "creation date" -> {Nil, VInt(5), VStr("x")}
      [] k = "url-list" ->
           {Nil, VStr("u"), VList(<<VStr("u")>>), VList(<<VInt(7)>>)}
      [] k = "info" -> {Nil, VInt(7), VStr("i"), VList(<<>>)}
      [] OTHER -> {Nil, VStr("c"), VInt(7)}

InfoDom(k) ==
    CASE k = "piece length" -> {Nil, VInt(16), VStr("x")}
      [] k = "pieces" -> {Nil, VStr("p"), VInt(7)}
      [] k = "length" -> {Nil, VInt(9), VStr("x")}
      [] k = "private" -> {Nil, VInt(0), VInt(1), VInt(2), VInt(-1), VStr("x")}
      [] k = "files" -> FilesDom
      [] OTHER -> {Nil, VStr("n"), VInt(7)}

BaseInfo ==
    [k \in InfoKeys |->
        CASE k = "piece length" -> VInt(16)
          [] k = "pieces" -> VStr("p")
          [] k = "name" -> VStr("n")
          [] OTHER -> Nil]

BaseDoc ==
    [k \in TopKeys |->
        CASE k = "announce" -> VStr("a")
          [] k = "info" -> VMap(BaseInfo)
          [] OTHER -> Nil]

AllKeys == <<"announce", "announce-list", "comment", "created by",
             "creation date", "encoding", "info", "url-list", "files",
             "length", "name", "piece length", "pieces", "private", "source">>

\* the single-field changes: the key AllKeys[r] gets value x
Changes ==
    UNION {{[r |-> r, x |-> x] :
              x \in (IF AllKeys[r] \in TopKeys
                     THEN TopDom(AllKeys[r]) \ {BaseDoc[AllKeys[r]]}
                     ELSE InfoDom(AllKeys[r]) \ {BaseInfo[AllKeys[r]]})} :
           r \in 1..Len(AllKeys)}
NoChange == [r |-> 0, x |-> Nil]

Change(d, c) ==
    IF c.r = 0 THEN d
    ELSE IF AllKeys[c.r] \in TopKeys THEN [d EXCEPT ![AllKeys[c.r]] = c.x]
    ELSE IF d["info"].t = "map" THEN [d EXCEPT !["info"].v[AllKeys[c.r]] = c.x]
    ELSE d

\* a choice of at most MaxDeviations changes, NoChange first and then
\* changes of different keys in the order of AllKeys
Choices == [1..MaxDeviations -> Changes \cup {NoChange}]
Ordered(f) ==
    \A i \in 1..(MaxDeviations - 1) :
        IF f[i].r = 0 THEN TRUE ELSE f[i].r < f[i + 1].r

RECURSIVE Changed(_, _, _)
Changed(d, f, i) ==
    IF i > MaxDeviations THEN d
    ELSE Changed(Change(d, f[i]), f, i + 1)

\* inputs that are no dictionary, or that a decoder's grammar rejects
OtherInputs ==
    {Bytes(x, s, TRUE) : x \in {VInt(7), VStr("a"), VList(<<>>)}, s \in BOOLEAN} \cup
    {Bytes(VMap(BaseDoc), TRUE, FALSE), Bytes(Nil, FALSE, FALSE), NilBytes}

\* rb is one of the explored inputs
IsInput(b) ==
    \/ \E f \in Choices : \E s \in BOOLEAN :
          Ordered(f) /\ b = Bytes(VMap(Changed(BaseDoc, f, 1)), s, TRUE)
    \/ b \in OtherInputs

----------------------------------------------------------------------------
(* The state machine: an input is drawn, then an operation is applied.     *)

NoRet == [mi |-> NilPtr, err |-> NoErr, calls |-> 0, fault |-> FALSE]
NoBts == [fault |-> FALSE, bts |-> NilBytes]

Init ==
    /\ IsInput(rb)
    /\ pc = "start"
    /\ ret = NoRet
    /\ nbts = NoBts
    /\ m = NoMagnet

\* mi, err := LoadBytes(rb)
LoadBytesCall ==
    /\ pc = "start"
    /\ ret' = LoadBytes(rb)
    /\ pc' = "LoadBytes"
    /\ UNCHANGED <<rb, nbts, m>>

\* nbts := newBts(rb)
newBtsCall ==
    /\ pc = "start"
    /\ nbts' = newBts(rb)
    /\ pc' = "newBts"
    /\ UNCHANGED <<rb, ret, m>>

\* m := mi.Magnet(infoHash, info) on the descriptor LoadBytes returned
MagnetCall ==
    /\ pc = "LoadBytes"
    /\ ret.mi.ptr = "ref"
    /\ \E withHash, withInfo \in BOOLEAN :
       \E order \in RangeOrders(DistinctValues(UpvertedAnnounceList(ret.mi.val))) :
          m' = Magnet(ret.mi.val,
                      IF withHash THEN [ptr |-> "ref", val |-> HashBytes(NilBytes)]
                      ELSE [ptr |-> "nil", val |-> HashBytes(NilBytes)],
                      IF withInfo THEN [ptr |-> "ref", val |-> [Info EXCEPT !.Name = "n"]]
                      ELSE [ptr |-> "nil", val |-> Info],
                      order)
    /\ pc' = "Magnet"
    /\ UNCHANGED <<rb, ret, nbts>>

\* the loader and its recovery decoder
Next == LoadBytesCall \/ newBtsCall

Spec == Init /\ [][Next]_vars

\* the loader followed by the magnet accessor
NextMagnet == LoadBytesCall \/ MagnetCall

SpecMagnet == Init /\ [][NextMagnet]_vars

----------------------------------------------------------------------------
(* Shorthands for the properties below. *)

Loaded == pc = "LoadBytes"
Recovered == pc = "newBts"

\* the lenient decoder reads rb as a dictionary
IsDict == ~rb.nil /\ rb.lenient /\ rb.val.t = "map"
Top(k) == rb.val.v[k]
InfoIsDict == IsDict /\ Top("info").t = "map"
InfoField(k) == Top("info").v[k]

NilOr(x, t) == IsNil(x) \/ x.t = t
NilOrStrs(x) == IsNil(x) \/ (x.t = "list" /\ \A i \in 1..Len(x.v) : x.v[i].t = "str")

\* every top-level field other than `creation date` and `info` is absent or
\* has the shape the recovery decoder expects
TopWellTyped ==
    /\ \A k \in {"announce", "comment", "created by", "encoding"} : NilOr(Top(k), "str")
    /\ NilOrStrs(Top("announce-list"))
    /\ NilOrStrs(Top("url-list"))

FileWellTyped(v) ==
    /\ v.t = "map"
    /\ NilOr(v.v["length"], "int")
    /\ NilOrStrs(v.v["path"])

\* `info` is a dictionary with `pieces`, every field of it well-typed
InfoWellTyped ==
    /\ InfoIsDict
    /\ InfoField("pieces").t = "str"
    /\ \A k \in {"piece length", "length", "private"} : NilOr(InfoField(k), "int")
    /\ \A k \in {"name", "source"} : NilOr(InfoField(k), "str")
    /\ \/ IsNil(InfoField("files"))
       \/ /\ InfoField("files").t = "list"
          /\ \A i \in 1..Len(InfoField("files").v) :
                FileWellTyped(InfoField("files").v[i])

\* the `info` dictionary inside the bytes newBts returned
OutInfo == nbts.bts.val.v["info"]

RECURSIVE Flatten(_)
Flatten(al) ==
    IF Len(al) = 0 THEN <<>> ELSE al[1] \o Flatten(Tail(al))

\* q without the later occurrences of a value
RECURSIVE Dedup(_)
Dedup(q) ==
    IF Len(q) = 0 THEN <<>>
    ELSE LET r == Dedup(SubSeq(q, 1, Len(q) - 1))
         IN  IF q[Len(q)] \in Range(r) THEN r ELSE Append(r, q[Len(q)])

----------------------------------------------------------------------------
(* The properties. *)

\* C1: on every input the strict decode (Load) accepts, LoadBytes returns
\* exactly the descriptor and the nil error Load returns, and newBts is not
\* called.
C1_StrictSuccessReturnedAsIs ==
    (Loaded /\ Load(rb).err = NoErr) =>
        /\ ret.mi = Load(rb).mi
        /\ ret.err = NoErr
        /\ ret.calls = 0
        /\ ~ret.fault

\* a strictly decodable input that the recovery pass would have rewritten
C1_Witness ==
    /\ pc = "LoadBytes"
    /\ Load(rb).err = NoErr
    /\ ~newBts(rb).bts.nil
    /\ Load(newBts(rb).bts).mi # ret.mi

\* C2: when the strict decode fails and newBts yields nothing, LoadBytes
\* returns no descriptor and the error of that first strict decode.
C2_OriginalErrorPropagated ==
    (Loaded /\ Load(rb).err # NoErr /\ newBts(rb).bts.nil) =>
        /\ ret.mi.ptr = "nil"
        /\ ret.err = Load(rb).err

\* recovery was tried on a readable dictionary and gave nothing
C2_Witness ==
    /\ pc = "LoadBytes"
    /\ IsDict
    /\ Load(rb).err.kind = "UnmarshalTypeError"
    /\ ret.calls = 1
    /\ newBts(rb).bts.nil

\* C3: LoadBytes ends with a descriptor and no error, or with no descriptor
\* and an error; after a failed first decode a descriptor is returned only
\* if newBts produced bytes and their strict decode succeeded, and a failed
\* second decode fails the load.
C3_AllOrNothing ==
    Loaded =>
        /\ ~ret.fault
        /\ \/ ret.mi.ptr = "ref" /\ ret.err = NoErr
           \/ ret.mi.ptr = "nil" /\ ret.err # NoErr
        /\ (Load(rb).err # NoErr /\ ret.mi.ptr = "ref") =>
              /\ ~newBts(rb).bts.nil
              /\ Load(newBts(rb).bts).err = NoErr
              /\ ret.mi = Load(newBts(rb).bts).mi
        /\ (Load(rb).err # NoErr /\ ~newBts(rb).bts.nil
              /\ Load(newBts(rb).bts).err # NoErr) =>
              /\ ret.mi.ptr = "nil"
              /\ ret.err # NoErr

\* a descriptor returned through the recovery pass
C3_Witness ==
    /\ pc = "LoadBytes"
    /\ Load(rb).err # NoErr
    /\ ret.calls = 1
    /\ ret.mi.ptr = "ref"

\* C4: for a dictionary without `info`, or whose `info` dictionary has no
\* `pieces`, newBts returns nil whatever the other fields hold.
C4_MissingInfoOrPiecesGivesNil ==
    (Recovered /\ IsDict
        /\ (IsNil(Top("info")) \/ (Top("info").t = "map" /\ IsNil(InfoField("pieces"))))) =>
        /\ nbts.bts.nil
        /\ ~nbts.fault

\* `pieces` is missing from an info dictionary that has files, and the
\* body of newBts got as far as the test of `pieces`
C4_Witness ==
    /\ Recovered
    /\ InfoIsDict
    /\ IsNil(InfoField("pieces"))
    /\ ~IsNil(InfoField("files"))
    /\ newBtsBody(rb).out = "return"
    /\ nbts.bts.nil

\* one of announce, comment, created by, encoding is no byte-string, or an
\* entry of announce-list is none
C5_Mistyped ==
    /\ IsDict
    /\ \/ \E k \in {"announce", "comment", "created by", "encoding"} :
             ~NilOr(Top(k), "str")
       \/ /\ Top("announce-list").t = "list"
          /\ \E i \in 1..Len(Top("announce-list").v) :
                Top("announce-list").v[i].t # "str"

\* C5: such a type mismatch is caught inside newBts, which returns nil; no
\* fault reaches the caller of LoadBytes, which reports the decode error.
C5_MismatchAbsorbed ==
    /\ (Recovered /\ C5_Mistyped) => (nbts.bts.nil /\ ~nbts.fault)
    /\ (Loaded /\ ret.calls > 0 /\ C5_Mistyped) =>
          /\ ~ret.fault
          /\ ret.mi.ptr = "nil"
          /\ ret.err # NoErr
          /\ ret.err = Load(rb).err

\* LoadBytes called newBts, whose body panicked on such a field
C5_Witness ==
    /\ pc = "LoadBytes"
    /\ ret.calls = 1
    /\ C5_Mistyped
    /\ newBtsBody(rb).out = "panic"
    /\ ret.err # NoErr

\* the positions of the entries of `files` with a non-empty path
C6_Kept ==
    {i \in 1..Len(InfoField("files").v) :
        /\ ~IsNil(InfoField("files").v[i].v["path"])
        /\ Len(InfoField("files").v[i].v["path"].v) > 0}

\* the i-th of them, in the order of the list
C6_Nth(i) ==
    CHOOSE j \in C6_Kept : Cardinality({k \in C6_Kept : k < j}) = i - 1

\* the file list inside the bytes newBts returned
C6_OutFiles == IF IsNil(OutInfo.v["files"]) THEN <<>> ELSE OutInfo.v["files"].v

\* `files` is a list of dictionaries and every field is well-typed
C6_Case ==
    /\ IsDict
    /\ TopWellTyped
    /\ NilOr(Top("creation date"), "int")
    /\ InfoWellTyped
    /\ InfoField("files").t = "list"

\* C6: the entries of `files` without a path or with an empty path are left
\* out, those with a non-empty path of byte-strings are kept in their
\* order, and leaving entries out does not abort the recovery.
C6_FilesWithoutPathDropped ==
    (Recovered /\ C6_Case) =>
        /\ ~nbts.fault
        /\ ~nbts.bts.nil
        /\ Len(C6_OutFiles) = Cardinality(C6_Kept)
        /\ \A i \in 1..Len(C6_OutFiles) :
              LET o == InfoField("files").v[C6_Nth(i)] IN
              /\ C6_OutFiles[i].v["path"] = o.v["path"]
              /\ C6_OutFiles[i].v["length"] =
                    (IF IsNil(o.v["length"]) THEN VInt(0) ELSE o.v["length"])

\* a list with an entry without path, one with an empty path and several
\* kept entries
C6_Witness ==
    /\ Recovered
    /\ C6_Case
    /\ \E i \in 1..Len(InfoField("files").v) : IsNil(InfoField("files").v[i].v["path"])
    /\ \E i \in 1..Len(InfoField("files").v) :
          /\ ~IsNil(InfoField("files").v[i].v["path"])
          /\ Len(InfoField("files").v[i].v["path"].v) = 0
    /\ Cardinality(C6_Kept) >= 2
    /\ ~nbts.bts.nil
    /\ Len(C6_OutFiles) = Cardinality(C6_Kept)

\* C7: Magnet's trackers are the distinct URLs of the upverted announce
\* list in the order of their first occurrence, the same on every call.
C7_TrackersInOrderOfFirstOccurrence ==
    pc = "Magnet" =>
        m.Trackers = Dedup(Flatten(UpvertedAnnounceList(ret.mi.val)))

\* C8: with `creation date` present and no integer, every other field
\* well-typed and `info` and `pieces` present, newBts still yields bytes,
\* without a creation date; an integer creation date is taken over.
C8_CreationDateMismatchTolerated ==
    (Recovered /\ IsDict /\ TopWellTyped /\ InfoWellTyped
        /\ ~IsNil(Top("creation date"))) =>
        /\ ~nbts.bts.nil
        /\ nbts.bts.val.v["creation date"] =
              (IF Top("creation date").t = "int" THEN Top("creation date") ELSE Nil)

\* C9: in the reconstructed info, an integer `private` that is not zero
\* gives true, zero gives false, and an absent `private` leaves the flag
\* unset.
C9_PrivateNonzeroIsTrue ==
    (Recovered /\ InfoIsDict /\ ~nbts.bts.nil /\ NilOr(InfoField("private"), "int")) =>
        OutInfo.v["private"] =
            (IF IsNil(InfoField("private")) THEN Nil
             ELSE VInt(IF InfoField("private").v # 0 THEN 1 ELSE 0))

\* C10: the bytes newBts returns always embed the encoded info, so a
\* descriptor that LoadBytes returns after a failed first decode has
\* InfoBytes that are not empty.
C10_RecoveredInfoBytesNonEmpty ==
    /\ (Recovered /\ ~nbts.bts.nil) => ~IsNil(OutInfo)
    /\ (Loaded /\ ret.calls > 0 /\ ret.mi.ptr = "ref") => ~ret.mi.val.InfoBytes.nil

====
